---------------------------- MODULE Spec2Model ----------------------------
(***************************************************************************)
(* Fire-Simulation: the 2D canvas hook (useFireAnimation) and the 3D       *)
(* point-cloud step (FireParticles/useFrame), with their particle          *)
(* factories and colour mappers.                                           *)
(*                                                                         *)
(* Numbers.  The JavaScript works on IEEE doubles; the model works on      *)
(* integers in fixed units, chosen so that the energy and life arithmetic  *)
(* is exact on the grid of draws the model enumerates:                     *)
(*   2D energy            1e-5 energy units        (EnergyUnit2D)          *)
(*   2D position/velocity 1e-4 px, 1e-4 px/frame   (PosUnit2D)             *)
(*   3D life              1/8e7 s                  (LifeUnit3D)            *)
(*   3D position/velocity 1e-3 world units (/s)    (PosUnit3D)             *)
(*   time step (delta)    milliseconds                                     *)
(*   colour channels      1/42000 (base colour is exact), 0..255 for RGBA  *)
(* Products that are not exact on these units are truncated by \div; each  *)
(* such place is marked "trunc".  Math.random(), gaussianRandom and the    *)
(* sine/cosine turbulence terms are inputs: the actions draw them from     *)
(* small sets within the range the code can produce.                       *)
(*                                                                         *)
(* The live collection is a JavaScript array of particle objects.  It is   *)
(* kept run-length encoded: a sequence of groups [p |-> particle, n |->    *)
(* count], in array order; the particles of one group were spawned in the  *)
(* same tick with the same draws and see the same turbulence draws.        *)
(***************************************************************************)
EXTENDS Integers, Sequences, FiniteSets, TLC

VARIABLES
    app,                 \* which application runs: "2D", "3D", or "probe" (function harness)
    mounted,             \* the component is mounted
    energyPercent,       \* React state of FireSimulation (slider), 10..100
    liveParticles,       \* 2D: closure variable of the effect; 3D: liveParticlesRef.current
    frameIndex,          \* 2D: frame counter of the effect closure
    animationFrameIdRef, \* 2D: animationFrameIdRef.current (0 models null)
    rafPending,          \* 2D: ids of the callbacks pending with requestAnimationFrame
    ticks,               \* number of ticks run so far (2D: also the last id requestAnimationFrame gave)
    changes,             \* number of slider changes so far
    emitted,             \* groups drawn (2D) / written to the buffers (3D) by the last tick
    culled,              \* groups the last tick's filter removed, as they were when removed
    spawnedNow,          \* groups the last tick's spawn loop appended, as the factory returned them
    tickEnergies,        \* the energyPercent of each tick run on the present array, oldest first
    frameDelta,          \* 3D: the delta the last useFrame call was handed, in milliseconds
    drawRange,           \* 3D: the count of the geometry's draw range (the whole buffer until set)
    probe                \* function harness: the last call and its result

vars == <<app, mounted, energyPercent, liveParticles, frameIndex, animationFrameIdRef,
          rafPending, ticks, changes, emitted, culled, spawnedNow,
                   tickEnergies, frameDelta, drawRange, probe>>

-----------------------------------------------------------------------------
(* Bounds of the model *)

\* ticks explored per behaviour
MaxTicks == 4
\* slider changes explored per behaviour
MaxEnergyChanges == 2

\* ticks a pair of particles is followed for
MaxDecayTicks == 3
\* largest standard normal sample of the pair's spawn offset, in tenths
MaxNormalTenths == 30

\* slider positions the simulation explores (the slider's range is 10..100)
EnergyLevels == {10, 50, 100}
\* the whole slider range, used for the energy-only functions
SliderRange == 10..100

-----------------------------------------------------------------------------
(* Arithmetic helpers *)

Abs(x) == IF x < 0 THEN -x ELSE x
Max(a, b) == IF a >= b THEN a ELSE b
Min(a, b) == IF a <= b THEN a ELSE b

\* Math.floor of the rational a/b, b > 0
Floor(a, b) == a \div b

RECURSIVE NewtonSqrt(_, _)
\* Newton's iteration for the integer square root of n, from an estimate x above it
NewtonSqrt(n, x) ==
    LET y == (x + n \div x) \div 2
    IN  IF y >= x THEN x ELSE NewtonSqrt(n, y)

\* Math.sqrt, rounded down to an integer
ISqrt(n) == IF n <= 0 THEN 0 ELSE NewtonSqrt(n, n)

RECURSIVE SumCounts(_)
\* Array.length of a run-length encoded array
SumCounts(gs) == IF gs = <<>> THEN 0 ELSE Head(gs).n + SumCounts(Tail(gs))

(* A double that is the quotient a/b as JavaScript computes it, kept as a  *)
(* fraction: den > 0 for a finite value, num/0 with num # 0 for +-Infinity, *)
(* 0/0 for NaN.                                                            *)
Quotient(a, b) ==
    IF b > 0 THEN [num |-> a, den |-> b]
    ELSE IF b < 0 THEN [num |-> -a, den |-> -b]
    ELSE [num |-> (IF a > 0 THEN 1 ELSE IF a < 0 THEN -1 ELSE 0), den |-> 0]

IsNaN(q) == q.den = 0 /\ q.num = 0
Zero == [num |-> 0, den |-> 1]
One == [num |-> 1, den |-> 1]

\* Math.max(0, q): NaN stays NaN, -Infinity and negatives become 0
MathMaxZero(q) ==
    IF IsNaN(q) THEN q
    ELSE IF q.num <= 0 THEN Zero
    ELSE q

\* q is a number in [0, 1]
InUnitInterval(q) == q.den > 0 /\ 0 <= q.num /\ q.num <= q.den
IsZero(q) == q.den > 0 /\ q.num = 0

-----------------------------------------------------------------------------
(* 2D variant: V01 *)

\* <canvas width={800} height={600}>
CanvasWidthPx == 800
CanvasHeightPx == 600

\* 1 px, and 1 px/frame, in model units
PosUnit2D == 10000
\* 1 energy unit in model units
EnergyUnit2D == 100000

(* The draws one call of the 2D factory takes:                             *)
(*   z0        the standard normal sample of gaussianRandom, in tenths;    *)
(*             Box-Muller with u1 >= 1e-12 gives |z0| <= 7.44              *)
(*   yJit      (Math.random() - 0.5) * 5 px, in position units             *)
(*   burst     burstEnergyBonus in hundredths: 0, or 30..69                *)
(*   variation randomEnergyVariation in hundredths: 70..129                *)
(*   lat       Math.random() - 0.5 of initialVelocityX, in tenths: -5..4   *)
(*   kick      rareLateralKick in velocity units: 0, or -6000..5999        *)
(*   radius    basePixelRadius in position units: 40000..69999             *)
CentreDraw2D ==
    [z0 |-> 0, yJit |-> 0, burst |-> 0, variation |-> 100, lat |-> 0, kick |-> 0,
     radius |-> 55000]
EdgeDraw2D ==
    [z0 |-> 10, yJit |-> 12000, burst |-> 0, variation |-> 120, lat |-> 4, kick |-> 0,
     radius |-> 40000]
BurstDraw2D ==
    [z0 |-> -10, yJit |-> -25000, burst |-> 30, variation |-> 80, lat |-> -5,
     kick |-> 5999, radius |-> 69999]
\* 2.4 sigma from the centre, no burst: centerEnergyBias 0.04
NearRimDraw2D ==
    [z0 |-> 24, yJit |-> 0, burst |-> 0, variation |-> 70, lat |-> 0, kick |-> 0,
     radius |-> 40000]
\* 2.5 sigma from the centre, no burst: centerEnergyBias clamps to 0
RimDraw2D ==
    [z0 |-> -25, yJit |-> 0, burst |-> 0, variation |-> 129, lat |-> 0, kick |-> -6000,
     radius |-> 40000]

FactoryDraws2D == {CentreDraw2D, EdgeDraw2D, BurstDraw2D, NearRimDraw2D, RimDraw2D}

\* createFireParticle(canvasWidthPx, canvasHeightPx, energyPercent, gaussian)
createFireParticle(canvasWidth, canvasHeight, energy, d) ==
    LET burnerCenterX == (canvasWidth * PosUnit2D) \div 2
        burnerBaseY == (canvasHeight - 20) * PosUnit2D
        \* 40 - energyScalar01 * 25 px
        spawnSpreadPixels == 40 * PosUnit2D - energy * 2500
        \* Math.max(spawnSpreadPixels, 1e-3)
        stdDev == Max(spawnSpreadPixels, 10)
        spawnX == burnerCenterX + (d.z0 * stdDev) \div 10
        spawnY == burnerBaseY + d.yJit
        distanceFromCenterPx == Abs(spawnX - burnerCenterX)
        \* in tenths
        normalizedDistanceFromCenter == (distanceFromCenterPx * 10) \div stdDev
        burstEnergyBonus == d.burst
        receivedBurstEnergy == burstEnergyBonus > 0
        \* in hundredths
        centerEnergyBias == Max(0, 100 - normalizedDistanceFromCenter * 4 + burstEnergyBonus)
        \* 40 + energyScalar01 * 90, in tenths
        baseEnergyUnits == 400 + energy * 9
        particleEnergyUnits == baseEnergyUnits * centerEnergyBias
        initialEnergy == particleEnergyUnits * d.variation
        \* -1.5 - energyScalar01 * 4.5
        initialVelocityY == -15000 - energy * 450
        \* (1 - energyScalar01) * 0.8
        lateralSpreadScale == (100 - energy) * 80
        initialVelocityX == (d.lat * lateralSpreadScale) \div 10 + d.kick
    IN  [positionX |-> spawnX,
         positionY |-> spawnY,
         velocityX |-> initialVelocityX,
         velocityY |-> initialVelocityY,
         initialEnergy |-> initialEnergy,
         remainingEnergy |-> initialEnergy,
         lifeFraction |-> One,
         basePixelRadius |-> d.radius,
         normalizedDistanceFromCenter |-> normalizedDistanceFromCenter,
         receivedBurstEnergy |-> receivedBurstEnergy]

(* The turbulence draws of one tick (all particles updated in the tick see *)
(* the same draws):                                                        *)
(*   noise  deterministicNoise = Math.sin(...), in tenths: -10..10         *)
(*   jit    Math.random() - 0.5, in tenths: -5..4                          *)
(*   spike  rareLateralSpike in velocity units: 0, or -2000..1999          *)
CalmDraw2D == [noise |-> 0, jit |-> 0, spike |-> 0]
GustDraw2D == [noise |-> 10, jit |-> 4, spike |-> 1999]
TurbulenceDraws2D == {CalmDraw2D, GustDraw2D}

\* mutant of spawnPerFrame: the remainder of the division in place of its floor
spawnPerFrameRemainder(energy) == 5 + (energy % 10)

\* const spawnPerFrame = 5 + Math.floor(energyPercent / 10)
spawnPerFrame(energy) == 5 + Floor(energy, 10)

\* const particleCountCap = 400 + Math.floor(energyPercent * 3)
particleCountCap(energy) == 400 + Floor(energy * 3, 1)

\* mutant of LifeFraction2D: the quotient without Math.max(0, ...)
LifeFraction2DUnclamped(remainingEnergy, initialEnergy) ==
    Quotient(remainingEnergy, initialEnergy)

\* p.lifeFraction = Math.max(0, p.remainingEnergy / p.initialEnergy)
LifeFraction2D(remainingEnergy, initialEnergy) ==
    MathMaxZero(Quotient(remainingEnergy, initialEnergy))

\* mutant of actualEnergyLoss: the edge penalty is charged to burst particles too
actualEnergyLossNoExemption(p, energy) ==
    (800 + (100 - energy) * 12) * (100 + p.normalizedDistanceFromCenter * 3)

\* const actualEnergyLoss = baseEnergyLossPerFrame * (1 + atEdgePenalty), in energy units
actualEnergyLoss(p, energy) ==
    LET \* (1 + atEdgePenalty) in hundredths
        onePlusPenalty ==
            IF p.receivedBurstEnergy THEN 100 ELSE 100 + p.normalizedDistanceFromCenter * 3
        \* 0.8 + (1 - energyScalar01) * 1.2, in thousandths
        baseEnergyLossPerFrame == 800 + (100 - energy) * 12
    IN  baseEnergyLossPerFrame * onePlusPenalty

\* steps 3.a - 3.f of the filter callback for one particle
UpdateParticle2D(p, energy, t) ==
    LET buoyancyUpdraft == 9 * energy
        velocityY1 == p.velocityY - buoyancyUpdraft
        \* (1 - energyScalar01) * 0.15
        turbulenceNoiseStrength == (100 - energy) * 15
        lateralNoise == (t.noise * turbulenceNoiseStrength) \div 10
        velocityX1 ==
            p.velocityX + lateralNoise + (t.jit * turbulenceNoiseStrength) \div 10 + t.spike
        canvasCenterX == (CanvasWidthPx * PosUnit2D) \div 2
        dxFromCenter == p.positionX - canvasCenterX
        \* -dx * 0.002 * (1 - energyScalar01 * 0.5) * recirculationStrength   (trunc)
        centripetalForce ==
            -((dxFromCenter * (200 - energy)) \div
                 (IF p.receivedBurstEnergy THEN 200000 ELSE 100000))
        velocityX2 == velocityX1 + centripetalForce
        positionX == p.positionX + velocityX2
        positionY == p.positionY + velocityY1
        remainingEnergy == p.remainingEnergy - actualEnergyLoss(p, energy)
    IN  [p EXCEPT
            !.positionX = positionX,
            !.positionY = positionY,
            !.remainingEnergy = remainingEnergy,
            !.lifeFraction = LifeFraction2D(remainingEnergy, p.initialEnergy),
            \* dragFactorX = 0.94 + energyScalar01 * 0.04   (trunc)
            !.velocityX = (velocityX2 * (9400 + 4 * energy)) \div 10000,
            \* dragFactorY = 0.96 + energyScalar01 * 0.02   (trunc)
            !.velocityY = (velocityY1 * (9600 + 2 * energy)) \div 10000]

\* mutant of onScreen: the position tests without p.remainingEnergy > 0
onScreenPositionOnly(p) ==
    /\ p.positionY > -30 * PosUnit2D
    /\ p.positionX > -30 * PosUnit2D
    /\ p.positionX < (CanvasWidthPx + 30) * PosUnit2D

\* const onScreen = ... of the filter callback, on the updated particle
onScreen(p) ==
    /\ p.remainingEnergy > 0
    /\ p.positionY > -30 * PosUnit2D
    /\ p.positionX > -30 * PosUnit2D
    /\ p.positionX < (CanvasWidthPx + 30) * PosUnit2D

\* mutant of SpawnLoop2D: every iteration pushes, without the test of the length
SpawnLoop2DUngated(len, energy) == spawnPerFrame(energy)

(* for (let i = 0; i < spawnPerFrame; i++) if (length < cap) push(create())  *)
(* on an array of len particles: the number of iterations that push.  Each *)
(* push lengthens the array by one, so iteration i finds the length len + i *)
(* as long as every earlier iteration pushed, and once the test fails it   *)
(* fails for the rest of the loop.                                         *)
SpawnLoop2D(len, energy) ==
    Cardinality({i \in 0..(spawnPerFrame(energy) - 1) : len + i < particleCountCap(energy)})

(* The k particles the spawn loop pushed, in order: the first call of the  *)
(* factory takes the draws b.head, the others b.tail.                      *)
Spawned2D(k, energy, b) ==
    LET first == createFireParticle(CanvasWidthPx, CanvasHeightPx, energy, b.head)
        others == createFireParticle(CanvasWidthPx, CanvasHeightPx, energy, b.tail)
    IN  IF k <= 0 THEN <<>>
        ELSE IF k = 1 THEN <<[p |-> first, n |-> 1]>>
        ELSE IF first = others THEN <<[p |-> first, n |-> k]>>
        ELSE <<[p |-> first, n |-> 1], [p |-> others, n |-> k - 1]>>

(* const tick = () => {...}: spawn, then filter (update, cull, draw).  The  *)
(* result holds the new array, what was drawn, what was removed and what   *)
(* the spawn loop appended.                                                *)
Tick2D(gs, energy, b, t) ==
    LET spawned == Spawned2D(SpawnLoop2D(SumCounts(gs), energy), energy, b)
        all == gs \o spawned
        updated == [k \in 1..Len(all) |->
                        [all[k] EXCEPT !.p = UpdateParticle2D(@, energy, t)]]
        kept == SelectSeq(updated, LAMBDA g : onScreen(g.p))
    IN  [live |-> kept,
         emitted |-> kept,
         culled |-> SelectSeq(updated, LAMBDA g : ~onScreen(g.p)),
         spawned |-> spawned]

-----------------------------------------------------------------------------
(* 3D variant: V01_3D *)

\* const MAX_PARTICLES = 6000
MAX_PARTICLES == 6000

\* 1 world unit, and 1 world unit per second, in model units
PosUnit3D == 1000
\* 1 second of particle life in model units
LifeUnit3D == 80000000

(* The draws one call of spawnParticle takes:                              *)
(*   gx, gz, gy  standard normal samples of the position, in tenths        *)
(*   gvx, gvz    standard normal samples of the velocity, in tenths        *)
(*   variation   0.8 + Math.random() * 0.4 in hundredths: 80..119          *)
CentreDraw3D ==
    [gx |-> 0, gz |-> 0, gy |-> 0, gvx |-> 0, gvz |-> 0, variation |-> 100]
OffCentreDraw3D ==
    [gx |-> 12, gz |-> -16, gy |-> 5, gvx |-> 10, gvz |-> -10, variation |-> 119]
\* 3.9 sigma from the axis: centerBias 0.025
NearRimDraw3D ==
    [gx |-> 39, gz |-> 0, gy |-> 0, gvx |-> 0, gvz |-> 0, variation |-> 80]
\* 4 sigma from the axis: centerBias clamps to 0
RimDraw3D ==
    [gx |-> -40, gz |-> 0, gy |-> -5, gvx |-> 0, gvz |-> 0, variation |-> 100]

FactoryDraws3D == {CentreDraw3D, OffCentreDraw3D, NearRimDraw3D, RimDraw3D}

\* energies at which the double Math.pow(energyScalar, 2.0) lies below the exact square
PowRoundsDown == {70}

(* Math.floor(rampedScalar * k), rampedScalar = Math.pow(energyPercent/100, 2.0): *)
(* the exact floor, except that a product which is a whole number exactly  *)
(* is floored one lower where the double square lies below the exact one   *)
(* (0.7^2 = 0.48999999999999994).                                          *)
FloorRamped(energy, k) ==
    LET product == energy * energy * k
    IN  IF energy \in PowRoundsDown /\ product % 10000 = 0
        THEN Floor(product, 10000) - 1
        ELSE Floor(product, 10000)

\* const spawnRate = 10 + Math.floor(rampedScalar * 200)
spawnRate(energy) == 10 + FloorRamped(energy, 200)

\* const particleCap = 500 + Math.floor(rampedScalar * 5500)
particleCap(energy) == 500 + FloorRamped(energy, 5500)

\* function spawnParticle(energyScalar)
spawnParticle(energy, d) ==
    LET \* 1.5 - energyScalar * 1.2
        spawnRadius == 1500 - 12 * energy
        \* gaussianRandom(0, spawnRadius * 0.5)   (trunc)
        posX == (d.gx * spawnRadius) \div 20
        posZ == (d.gz * spawnRadius) \div 20
        \* gaussianRandom(0, 0.2)
        posY == d.gy * 20
        \* 2.0 + rampedScalar * 10.0
        upwardVelocity == 2000 + energy * energy
        \* Math.sqrt(posX * posX + posZ * posZ) / spawnRadius, in hundredths   (trunc)
        distFromCenter == (ISqrt(posX * posX + posZ * posZ) * 100) \div spawnRadius
        \* Math.max(0, 1.0 - distFromCenter * 0.5), in two-hundredths
        centerBias == Max(0, 200 - distFromCenter)
        \* 1.0 + rampedScalar * 2.5, in four-thousandths
        baseLife == 4000 + energy * energy
        life == baseLife * centerBias * d.variation
    IN  [position |-> [x |-> posX, y |-> posY, z |-> posZ],
         velocity |-> [x |-> d.gvx * 50, y |-> upwardVelocity, z |-> d.gvz * 50],
         life |-> life,
         initialLife |-> life]

(* The inputs of one call of the useFrame callback:                        *)
(*   delta  the elapsed time in milliseconds: 0 (two calls within one      *)
(*          reading of the clock), 25 and 500 (40 and 2 frames per second) *)
(*   noise  (Math.sin(...) + Math.cos(...)) * 0.4 in hundredths, -80..80   *)
(*          (all particles updated in the call see the same noise)         *)
(*   head, tail  the draws of the spawn loop: head for the first particle  *)
(*          it pushes, tail for the others                                 *)
FrameDraws3D ==
    {[delta |-> 0, noise |-> 80, head |-> CentreDraw3D, tail |-> CentreDraw3D],
     [delta |-> 500, noise |-> -80, head |-> CentreDraw3D, tail |-> CentreDraw3D],
     [delta |-> 25, noise |-> -80, head |-> RimDraw3D, tail |-> NearRimDraw3D]}

\* mutant of DecayLife3D: the life stays as it is
DecayLife3DFrozen(p, delta) == p

\* p.life -= delta
DecayLife3D(p, delta) == [p EXCEPT !.life = @ - delta * (LifeUnit3D \div 1000)]

\* mutant of UpdateParticle3D: the position advances by a fixed 1/60 s, whatever delta is
UpdateParticle3DFixedStep(p, energy, delta, noise) ==
    [p EXCEPT !.position = [x |-> p.position.x + p.velocity.x \div 60,
                            y |-> p.position.y + p.velocity.y \div 60,
                            z |-> p.position.z + p.velocity.z \div 60]]

\* steps b (physics) of the filter callback for one particle that is alive
UpdateParticle3D(p, energy, delta, noise) ==
    LET \* p.velocity.y += (0.02 + rampedScalar * 0.1) * delta * 60   (trunc)
        vy1 == p.velocity.y + ((2000 + energy * energy) * delta * 3) \div 5000
        \* += noise * (1.0 - energyScalar) * delta * 2   (trunc)
        push == (noise * (100 - energy) * delta) \div 5000
        vx1 == p.velocity.x + push
        vz1 == p.velocity.z + push
        \* 1.0 - (0.3 + energyScalar * 0.4) * delta, in ten-thousandths   (trunc)
        drag == 10000 - ((300 + 4 * energy) * delta) \div 100
        velocity == [x |-> (vx1 * drag) \div 10000,
                     y |-> (vy1 * drag) \div 10000,
                     z |-> (vz1 * drag) \div 10000]
        \* p.position.addScaledVector(p.velocity, delta)   (trunc)
        position == [x |-> p.position.x + (velocity.x * delta) \div 1000,
                     y |-> p.position.y + (velocity.y * delta) \div 1000,
                     z |-> p.position.z + (velocity.z * delta) \div 1000]
    IN  [p EXCEPT !.velocity = velocity, !.position = position]

\* const lifeFraction = Math.max(0, p.life / p.initialLife)
LifeFraction3D(p) == MathMaxZero(Quotient(p.life, p.initialLife))

\* if (p.life <= 0) return false, on the particle after p.life -= delta
Alive3D(p) == ~(p.life <= 0)

(* for (let i = 0; i < spawnRate; i++)                                     *)
(*   if (length < particleCap && length < MAX_PARTICLES) push(spawnParticle()) *)
(* on an array of len particles: the number of iterations that push (see   *)
(* SpawnLoop2D).                                                           *)
SpawnLoop3D(len, energy) ==
    Cardinality({i \in 0..(spawnRate(energy) - 1) :
                    len + i < particleCap(energy) /\ len + i < MAX_PARTICLES})

(* The k particles the spawn loop pushed, in order: the first call of      *)
(* spawnParticle takes the draws b.head, the others b.tail.                *)
Spawned3D(k, energy, b) ==
    LET first == spawnParticle(energy, b.head)
        others == spawnParticle(energy, b.tail)
    IN  IF k <= 0 THEN <<>>
        ELSE IF k = 1 THEN <<[p |-> first, n |-> 1]>>
        ELSE IF first = others THEN <<[p |-> first, n |-> k]>>
        ELSE <<[p |-> first, n |-> 1], [p |-> others, n |-> k - 1]>>

\* mutant of SlotOf: particleIndex is advanced before the write, not after it
SlotOfAdvancedFirst(gs, k) == SumCounts(SubSeq(gs, 1, k - 1)) + 1

(* particleIndex when the filter callback reaches the first particle of    *)
(* group k of the particles it keeps: let particleIndex = 0, and           *)
(* particleIndex++ after the writes of each particle kept.                 *)
SlotOf(gs, k) == SumCounts(SubSeq(gs, 1, k - 1))

(* useFrame((state, delta) => {...}): spawn, then filter (decay, cull,     *)
(* physics, colour, buffer write), then setDrawRange(0, particleIndex).    *)
(* An emitted group carries the lifeFraction the callback computed for it  *)
(* and the slot of the buffers its first particle was written to (the      *)
(* particle in slot i takes positions[3i .. 3i+2] and colors[3i .. 3i+2]). *)
Step3D(gs, energy, f) ==
    LET delta == f.delta
        noise == f.noise
        spawned == Spawned3D(SpawnLoop3D(SumCounts(gs), energy), energy, f)
        all == gs \o spawned
        decayed == [k \in 1..Len(all) |-> [all[k] EXCEPT !.p = DecayLife3D(@, delta)]]
        alive == SelectSeq(decayed, LAMBDA g : Alive3D(g.p))
        kept == [k \in 1..Len(alive) |->
                    [alive[k] EXCEPT !.p = UpdateParticle3D(@, energy, delta, noise)]]
    IN  [live |-> kept,
         emitted |-> [k \in 1..Len(kept) |->
                         [p |-> kept[k].p, n |-> kept[k].n,
                          lifeFraction |-> LifeFraction3D(kept[k].p),
                          slot |-> SlotOf(kept, k)]],
         culled |-> SelectSeq(decayed, LAMBDA g : ~Alive3D(g.p)),
         spawned |-> spawned,
         particleIndex |-> SumCounts(kept)]

-----------------------------------------------------------------------------
(* 3D library factory: lib/createParticle of V01_3D (not called by         *)
(* FireParticles, which spawns with spawnParticle)                         *)

(* The draws one call of the 3D library factory takes:                     *)
(*   zx, zz    the standard normal samples of spawnX and spawnZ, in tenths *)
(*   yJit      (Math.random() - 0.5) * 0.5, in position units              *)
(*   burst     burstEnergyBonus in hundredths: 0, or 30..69                *)
(*   variation randomEnergyVariation in hundredths: 70..129                *)
(*   latX, latZ  Math.random() - 0.5 of the lateral velocities, in tenths  *)
(*   kick      rareLateralKick in velocity units: 0, or -600..599          *)
(*   radius    basePixelRadius in thousandths: 4000..6999                  *)
CentreDrawLib3D ==
    [zx |-> 0, zz |-> 0, yJit |-> 0, burst |-> 0, variation |-> 100, latX |-> 0,
     latZ |-> 0, kick |-> 0, radius |-> 5500]
EdgeDrawLib3D ==
    [zx |-> 6, zz |-> -8, yJit |-> 100, burst |-> 0, variation |-> 129, latX |-> 4,
     latZ |-> -5, kick |-> 0, radius |-> 4000]
BurstDrawLib3D ==
    [zx |-> -15, zz |-> 20, yJit |-> -250, burst |-> 30, variation |-> 70, latX |-> -5,
     latZ |-> 4, kick |-> 599, radius |-> 6999]
\* 2.5 sigma from the axis, no burst: centerEnergyBias clamps to 0
RimDrawLib3D ==
    [zx |-> 15, zz |-> 20, yJit |-> 0, burst |-> 0, variation |-> 100, latX |-> 0,
     latZ |-> 0, kick |-> -600, radius |-> 4000]

FactoryDrawsLib3D == {CentreDrawLib3D, EdgeDrawLib3D, BurstDrawLib3D, RimDrawLib3D}

\* createFireParticle(energyPercent, gaussian) of the 3D library
createFireParticle3D(energy, d) ==
    LET \* 1.5 - energyScalar01 * 1.0
        spawnSpreadUnits == 1500 - 10 * energy
        \* Math.max(spawnSpreadUnits, 1e-3)
        stdDev == Max(spawnSpreadUnits, 1)
        spawnX == (d.zx * stdDev) \div 10
        spawnZ == (d.zz * stdDev) \div 10
        spawnY == d.yJit
        \* Math.sqrt(Math.pow(spawnX - burnerCenterX, 2) + Math.pow(spawnZ, 2))   (trunc)
        distanceFromCenterPx == ISqrt(spawnX * spawnX + spawnZ * spawnZ)
        \* in tenths   (trunc)
        normalizedDistanceFromCenter == (distanceFromCenterPx * 10) \div stdDev
        burstEnergyBonus == d.burst
        receivedBurstEnergy == burstEnergyBonus > 0
        \* in hundredths
        centerEnergyBias == Max(0, 100 - normalizedDistanceFromCenter * 4 + burstEnergyBonus)
        \* 40 + energyScalar01 * 90, in tenths
        baseEnergyUnits == 400 + energy * 9
        particleEnergyUnits == baseEnergyUnits * centerEnergyBias
        initialEnergy == particleEnergyUnits * d.variation
        \* 1.5 + energyScalar01 * 4.5
        initialVelocityY == 1500 + energy * 45
        \* (1 - energyScalar01) * 0.8
        lateralSpreadScale == (100 - energy) * 8
    IN  [positionX |-> spawnX,
         positionY |-> spawnY,
         positionZ |-> spawnZ,
         velocityX |-> (d.latX * lateralSpreadScale) \div 10 + d.kick,
         velocityY |-> initialVelocityY,
         velocityZ |-> (d.latZ * lateralSpreadScale) \div 10 + d.kick,
         initialEnergy |-> initialEnergy,
         remainingEnergy |-> initialEnergy,
         lifeFraction |-> One,
         basePixelRadius |-> d.radius,
         normalizedDistanceFromCenter |-> normalizedDistanceFromCenter,
         receivedBurstEnergy |-> receivedBurstEnergy]

-----------------------------------------------------------------------------
(* Colour mappers.  A lifeFraction argument is a whole number of           *)
(* hundredths, 0..100; factors (alpha, brightness, hotness) are in         *)
(* ten-thousandths; the channels of the 3D mappers are in units of         *)
(* 1/42000, in which every base colour on the grid is a whole number.      *)

\* the lifeFraction values the mappers are called with, in hundredths
LifeGrid == 0..100

\* 1.0 of a factor
FactorUnit == 10000
\* 1.0 of a colour channel of the 3D mappers
ColourUnit == 42000

\* Math.floor(Math.pow(k / 100, 0.7) * 1e4) of the doubles, k = 0..100 at index k + 1
PowSevenTenths ==
    <<0, 398, 646, 858, 1050, 1228, 1395, 1554, 1706, 1853, 1995, 2132,
      2266, 2397, 2525, 2650, 2772, 2892, 3010, 3126, 3241, 3353, 3464,
      3574, 3682, 3789, 3894, 3999, 4102, 4204, 4305, 4405, 4504, 4602,
      4699, 4795, 4891, 4985, 5079, 5173, 5265, 5357, 5448, 5538, 5628,
      5718, 5806, 5894, 5982, 6069, 6155, 6241, 6327, 6411, 6496, 6580,
      6663, 6747, 6829, 6911, 6993, 7075, 7156, 7236, 7316, 7396, 7476,
      7555, 7634, 7712, 7790, 7868, 7945, 8022, 8099, 8176, 8252, 8328,
      8403, 8478, 8553, 8628, 8703, 8777, 8851, 8924, 8998, 9071, 9144,
      9216, 9289, 9361, 9433, 9504, 9576, 9647, 9718, 9789, 9859, 9929,
      10000>>

\* Math.floor(Math.sin(Math.PI * (1.0 - k / 100)) * 1e4) of the doubles, k = 0..100 at index k + 1
SinPiOneMinus ==
    <<0, 314, 627, 941, 1253, 1564, 1873, 2181, 2486, 2789, 3090, 3387,
      3681, 3971, 4257, 4539, 4817, 5090, 5358, 5620, 5877, 6129, 6374,
      6613, 6845, 7071, 7289, 7501, 7705, 7901, 8090, 8270, 8443, 8607,
      8763, 8910, 9048, 9177, 9297, 9408, 9510, 9602, 9685, 9759, 9822,
      9876, 9921, 9955, 9980, 9995, 10000, 9995, 9980, 9955, 9921, 9876,
      9822, 9759, 9685, 9602, 9510, 9408, 9297, 9177, 9048, 8910, 8763,
      8607, 8443, 8270, 8090, 7901, 7705, 7501, 7289, 7071, 6845, 6613,
      6374, 6129, 5877, 5620, 5358, 5090, 4817, 4539, 4257, 3971, 3681,
      3387, 3090, 2789, 2486, 2181, 1873, 1564, 1253, 941, 627, 314, 0>>

(* The (energyPercent, channel) at which the double the 2D mapper floors   *)
(* lies just below the whole number the exact arithmetic gives, so that    *)
(* Math.floor yields one less.                                             *)
ChannelRoundsDown ==
    {<<18, "g">>, <<30, "g">>, <<36, "g">>, <<43, "b">>, <<49, "b">>, <<58, "b">>,
     <<70, "b">>}

\* Math.floor(v) of a channel of the 2D mapper; exact is the floor of the exact value
FloorChannel(energy, channel, exact) ==
    IF <<energy, channel>> \in ChannelRoundsDown THEN exact - 1 ELSE exact

\* computeParticleColorRGBA(particle, energyPercent): the fields of the rgba(...) string
computeParticleColorRGBA(particle, energy) ==
    LET life == particle.lifeFraction
        high == energy > 70
        mid == energy > 40
        \* t = (energyScalar01 - 0.7) / 0.3, (energyScalar01 - 0.4) / 0.3, energyScalar01 / 0.4
        r == IF high THEN 120 + Floor(135 * (energy - 70), 30)
             ELSE IF mid THEN 255
             ELSE 220 + Floor(35 * energy, 40)
        g == IF high THEN 180 + Floor(75 * (energy - 70), 30)
             ELSE IF mid THEN 220 - Floor(60 * (energy - 40), 30)
             ELSE 40 + Floor(180 * energy, 40)
        b == IF high THEN 255
             ELSE IF mid THEN 30 + Floor(170 * (energy - 40), 30)
             ELSE 10 + Floor(20 * energy, 40)
    IN  [r |-> FloorChannel(energy, "r", r),
         g |-> FloorChannel(energy, "g", g),
         b |-> FloorChannel(energy, "b", b),
         \* Math.pow(life, 0.7) * 0.9   (trunc)
         alpha |-> (PowSevenTenths[life + 1] * 9) \div 10]

\* step 1 of updateParticleColor: the base colour of a lifeFraction
updateParticleColorBase(lifeFraction) ==
    IF lifeFraction > 90 THEN
        \* t = (lifeFraction - 0.9) / 0.1
        [r |-> ColourUnit,
         g |-> ColourUnit,
         b |-> ColourUnit - ((lifeFraction - 90) * ColourUnit) \div 50]
    ELSE IF lifeFraction > 70 THEN
        \* t = (lifeFraction - 0.7) / 0.2
        [r |-> ColourUnit,
         g |-> ColourUnit - ((lifeFraction - 70) * ColourUnit) \div 50,
         b |-> (8 * ColourUnit) \div 10 - ((lifeFraction - 70) * ColourUnit) \div 25]
    ELSE IF lifeFraction > 40 THEN
        \* t = (lifeFraction - 0.4) / 0.3
        [r |-> ColourUnit,
         g |-> (6 * ColourUnit) \div 10 - ((lifeFraction - 40) * ColourUnit) \div 75,
         b |-> 0]
    ELSE
        \* t = lifeFraction / 0.4
        [r |-> ColourUnit - (lifeFraction * ColourUnit) \div 80,
         g |-> (lifeFraction * ColourUnit) \div 200,
         b |-> 0]

\* Math.pow(energyScalar, 1.5) as a factor   (trunc)
RampedScalar15(energy) == ISqrt(100 * energy * energy * energy)

\* mutant of AddHotness: the sum without Math.min(1.0, ...)
AddHotnessUnclamped(channel, hotness, tenths) ==
    channel + (hotness * tenths * (ColourUnit \div 10)) \div FactorUnit

\* Math.min(1.0, channel + hotness * weight), weight in tenths   (trunc)
AddHotness(channel, hotness, tenths) ==
    Min(ColourUnit, channel + (hotness * tenths * (ColourUnit \div 10)) \div FactorUnit)

(* updateParticleColor(color, lifeFraction, energyScalar): the color       *)
(* object after color.setRGB(...)                                          *)
updateParticleColor(color, lifeFraction, energy) ==
    LET base == updateParticleColorBase(lifeFraction)
        rampedScalar == RampedScalar15(energy)
        \* rampedScalar * 1.5 * lifeFraction   (trunc)
        hotness == (rampedScalar * 15 * lifeFraction) \div 1000
        r == AddHotness(base.r, hotness, 2)
        g == AddHotness(base.g, hotness, 2)
        b == AddHotness(base.b, hotness, 10)
        \* Math.pow(lifeFraction, 0.5)   (trunc)
        lifeBrightness == ISqrt(lifeFraction * 1000000)
        \* 0.3 + Math.pow(energyScalar, 1.5) * 0.7   (trunc)
        energyBrightness == 3000 + (rampedScalar * 7) \div 10
        finalBrightness == (lifeBrightness * energyBrightness) \div FactorUnit
    IN  [color EXCEPT !.r = (r * finalBrightness) \div FactorUnit,
                      !.g = (g * finalBrightness) \div FactorUnit,
                      !.b = (b * finalBrightness) \div FactorUnit]

\* the base colour of computeParticleColor (before the brightness)
computeParticleColorBase(life) ==
    IF life > 90 THEN
        \* t = (life - 0.9) / 0.1
        [r |-> ColourUnit,
         g |-> (8 * ColourUnit) \div 10 + ((life - 90) * ColourUnit) \div 50,
         b |-> (5 * ColourUnit) \div 10 + ((life - 90) * ColourUnit) \div 20]
    ELSE IF life > 60 THEN
        \* t = (life - 0.6) / 0.3
        [r |-> ColourUnit,
         g |-> (5 * ColourUnit) \div 10 + ((life - 60) * ColourUnit) \div 100,
         b |-> ((life - 60) * ColourUnit) \div 60]
    ELSE IF life > 25 THEN
        \* t = (life - 0.25) / 0.35
        [r |-> (9 * ColourUnit) \div 10 + ((life - 25) * ColourUnit) \div 350,
         g |-> (2 * ColourUnit) \div 10 + ((life - 25) * 3 * ColourUnit) \div 350,
         b |-> 0]
    ELSE
        \* t = life / 0.25
        [r |-> (4 * ColourUnit) \div 10 + (life * ColourUnit) \div 50,
         g |-> ColourUnit \div 10 + (life * ColourUnit) \div 250,
         b |-> 0]

\* computeParticleColor(particle) of the 3D library
computeParticleColor(particle) ==
    LET life == particle.lifeFraction
        base == computeParticleColorBase(life)
        \* Math.sin(Math.PI * (1.0 - life)) * 0.5 + Math.pow(life, 2.0) * 0.5
        fade == SinPiOneMinus[life + 1] \div 2 + (life * life) \div 2
        \* Math.max(0, Math.min(1, fade * 1.5))
        brightness == Max(0, Min(FactorUnit, (fade * 15) \div 10))
    IN  [r |-> (base.r * brightness) \div FactorUnit,
         g |-> (base.g * brightness) \div FactorUnit,
         b |-> (base.b * brightness) \div FactorUnit]

-----------------------------------------------------------------------------
(* The applications *)

(* The draws of one tick's spawn loop: head for the first particle, tail   *)
(* for the others.                                                         *)
BatchDraws2D ==
    {[head |-> CentreDraw2D, tail |-> CentreDraw2D],
     [head |-> RimDraw2D, tail |-> CentreDraw2D],
     [head |-> NearRimDraw2D, tail |-> EdgeDraw2D],
     [head |-> BurstDraw2D, tail |-> EdgeDraw2D]}

NoProbe == [fn |-> "none"]

\* const [energyPercent, setEnergyPercent] = useState(50); nothing is mounted yet
Init ==
    /\ app \in {"2D", "3D"}
    /\ mounted = FALSE
    /\ energyPercent = 50
    /\ liveParticles = <<>>
    /\ frameIndex = 0
    /\ animationFrameIdRef = 0
    /\ rafPending = {}
    /\ ticks = 0
    /\ changes = 0
    /\ emitted = <<>>
    /\ culled = <<>>
    /\ spawnedNow = <<>>
    /\ tickEnergies = <<>>
    /\ frameDelta = 0
    /\ drawRange = MAX_PARTICLES
    /\ probe = NoProbe

(* One run of tick() of the 2D effect closure on the array gs with frame   *)
(* counter fi: the array is replaced, frameIndex++ and the next frame is   *)
(* requested, its id stored in the ref.  energy is the energyPercent the   *)
(* closure captured, pending the set of callbacks pending before the       *)
(* request.                                                                *)
RunTick2D(gs, fi, energy, pending, log, b, t) ==
    \E r \in {Tick2D(gs, energy, b, t)} :
        /\ liveParticles' = r.live
        /\ emitted' = r.emitted
        /\ culled' = r.culled
        /\ spawnedNow' = r.spawned
        /\ tickEnergies' = Append(log, energy)
        /\ frameIndex' = fi + 1
        /\ ticks' = ticks + 1
        /\ animationFrameIdRef' = ticks + 1
        /\ rafPending' = pending \cup {ticks + 1}

\* mutant of Cleanup2D: the cleanup cancels nothing
Cleanup2DNoCancel(pending) == pending

\* return () => { if (animationFrameIdRef.current) cancelAnimationFrame(...) }
Cleanup2D(pending) ==
    IF animationFrameIdRef # 0 THEN pending \ {animationFrameIdRef} ELSE pending

(* The component mounts; the effect body runs: a fresh array and frame     *)
(* counter, then tick() once.                                              *)
Mount2D ==
    /\ app = "2D" /\ ~mounted /\ ticks = 0
    /\ mounted' = TRUE
    /\ \E b \in BatchDraws2D, t \in TurbulenceDraws2D :
          RunTick2D(<<>>, 0, energyPercent, rafPending, <<>>, b, t)
    /\ UNCHANGED <<app, energyPercent, changes, frameDelta, drawRange, probe>>

\* the browser runs the pending callback: tick() of the effect closure
AnimationFrame2D ==
    /\ app = "2D" /\ ticks < MaxTicks
    /\ \E id \in rafPending :
          \E b \in BatchDraws2D, t \in TurbulenceDraws2D :
             RunTick2D(liveParticles, frameIndex, energyPercent, rafPending \ {id},
                       tickEnergies, b, t)
    /\ UNCHANGED <<app, mounted, energyPercent, changes, frameDelta, drawRange, probe>>

(* The slider moves: setEnergyPercent(e), the hook's effect is cleaned up  *)
(* and runs again with the new energyPercent (a fresh array and counter).  *)
SetEnergy2D ==
    /\ app = "2D" /\ mounted /\ ticks < MaxTicks /\ changes < MaxEnergyChanges
    /\ \E e \in EnergyLevels \ {energyPercent} :
          /\ energyPercent' = e
          /\ \E b \in BatchDraws2D, t \in TurbulenceDraws2D :
                RunTick2D(<<>>, 0, e, Cleanup2D(rafPending), <<>>, b, t)
    /\ changes' = changes + 1
    /\ UNCHANGED <<app, mounted, frameDelta, drawRange, probe>>

\* the component unmounts: the effect is cleaned up
Unmount2D ==
    /\ app = "2D" /\ mounted
    /\ mounted' = FALSE
    /\ rafPending' = Cleanup2D(rafPending)
    /\ UNCHANGED <<app, energyPercent, liveParticles, frameIndex, animationFrameIdRef,
                   ticks, changes, emitted, culled, spawnedNow,
                   tickEnergies, frameDelta, drawRange, probe>>

\* FireParticles mounts: liveParticlesRef = useRef([]), the useFrame callback is registered
Mount3D ==
    /\ app = "3D" /\ ~mounted /\ ticks = 0
    /\ mounted' = TRUE
    /\ UNCHANGED <<app, energyPercent, liveParticles, frameIndex, animationFrameIdRef,
                   rafPending, ticks, changes, emitted, culled, spawnedNow,
                   tickEnergies, frameDelta, drawRange, probe>>

\* the render loop calls the useFrame callback with the elapsed time delta
Frame3D ==
    /\ app = "3D" /\ mounted /\ ticks < MaxTicks
    /\ \E f \in FrameDraws3D :
          \E r \in {Step3D(liveParticles, energyPercent, f)} :
              /\ liveParticles' = r.live
              /\ emitted' = r.emitted
              /\ culled' = r.culled
              /\ spawnedNow' = r.spawned
              /\ frameDelta' = f.delta
              /\ drawRange' = r.particleIndex
    /\ tickEnergies' = Append(tickEnergies, energyPercent)
    /\ ticks' = ticks + 1
    /\ UNCHANGED <<app, mounted, energyPercent, frameIndex, animationFrameIdRef,
                   rafPending, changes, probe>>

\* the slider moves: FireParticles is rendered again with the new energyPercent prop
SetEnergy3D ==
    /\ app = "3D" /\ mounted /\ changes < MaxEnergyChanges
    /\ \E e \in EnergyLevels \ {energyPercent} : energyPercent' = e
    /\ changes' = changes + 1
    /\ UNCHANGED <<app, mounted, liveParticles, frameIndex, animationFrameIdRef,
                   rafPending, ticks, emitted, culled, spawnedNow,
                   tickEnergies, frameDelta, drawRange, probe>>

\* FireParticles unmounts: the render loop stops calling the callback
Unmount3D ==
    /\ app = "3D" /\ mounted
    /\ mounted' = FALSE
    /\ UNCHANGED <<app, energyPercent, liveParticles, frameIndex, animationFrameIdRef,
                   rafPending, ticks, changes, emitted, culled, spawnedNow,
                   tickEnergies, frameDelta, drawRange, probe>>

Next ==
    \/ Mount2D
    \/ AnimationFrame2D
    \/ SetEnergy2D
    \/ Unmount2D
    \/ Mount3D
    \/ Frame3D
    \/ SetEnergy3D
    \/ Unmount3D

Spec == Init /\ [][Next]_vars

-----------------------------------------------------------------------------
(* The function harness: one call of a pure function of the program on    *)
(* inputs drawn from its domain.  probe holds the call with its arguments  *)
(* and results; the simulation's variables stay as constructed.            *)

InitProbe ==
    /\ app = "probe"
    /\ mounted = FALSE
    /\ energyPercent = 50
    /\ liveParticles = <<>>
    /\ frameIndex = 0
    /\ animationFrameIdRef = 0
    /\ rafPending = {}
    /\ ticks = 0
    /\ changes = 0
    /\ emitted = <<>>
    /\ culled = <<>>
    /\ spawnedNow = <<>>
    /\ tickEnergies = <<>>
    /\ frameDelta = 0
    /\ drawRange = MAX_PARTICLES
    /\ probe = NoProbe

\* a probe leaves the simulation's variables alone
SimulationUnchanged ==
    UNCHANGED <<app, mounted, energyPercent, liveParticles, frameIndex, animationFrameIdRef,
                rafPending, ticks, changes, emitted, culled, spawnedNow, tickEnergies,
                frameDelta, drawRange>>

(* The spawn rate and the capacity of both variants, as one tick computes  *)
(* them, at two slider positions low <= high.                              *)
ProbeRates ==
    /\ app = "probe" /\ probe = NoProbe
    /\ \E low \in SliderRange, high \in SliderRange :
          /\ low <= high
          /\ probe' = [fn |-> "rates", low |-> low, high |-> high,
                       spawnPerFrame |-> <<spawnPerFrame(low), spawnPerFrame(high)>>,
                       particleCountCap |-> <<particleCountCap(low), particleCountCap(high)>>,
                       spawnRate |-> <<spawnRate(low), spawnRate(high)>>,
                       particleCap |-> <<particleCap(low), particleCap(high)>>]
    /\ SimulationUnchanged

\* createFireParticle(800, 600, energyPercent, gaussianRandom) of the 2D library
ProbeCreateFireParticle ==
    /\ app = "probe" /\ probe = NoProbe
    /\ \E energy \in SliderRange, d \in FactoryDraws2D :
          probe' = [fn |-> "createFireParticle", energy |-> energy, draws |-> d,
                    particle |-> createFireParticle(CanvasWidthPx, CanvasHeightPx, energy, d)]
    /\ SimulationUnchanged

\* createFireParticle(energyPercent, gaussianRandom) of the 3D library
ProbeCreateFireParticle3D ==
    /\ app = "probe" /\ probe = NoProbe
    /\ \E energy \in SliderRange, d \in FactoryDrawsLib3D :
          probe' = [fn |-> "createFireParticle3D", energy |-> energy, draws |-> d,
                    particle |-> createFireParticle3D(energy, d)]
    /\ SimulationUnchanged

\* spawnParticle(energyScalar) of FireParticles
ProbeSpawnParticle ==
    /\ app = "probe" /\ probe = NoProbe
    /\ \E energy \in SliderRange, d \in FactoryDraws3D :
          probe' = [fn |-> "spawnParticle", energy |-> energy, draws |-> d,
                    particle |-> spawnParticle(energy, d)]
    /\ SimulationUnchanged

RECURSIVE ApplyTicks2D(_, _, _, _)
(* The particle after n ticks of the 2D hook at one energy with the same   *)
(* turbulence draws: n runs of the filter callback's update.               *)
ApplyTicks2D(p, energy, t, n) ==
    IF n = 0 THEN p ELSE ApplyTicks2D(UpdateParticle2D(p, energy, t), energy, t, n - 1)

\* the filter keeps the particle in each of its first n ticks
KeptForTicks2D(p, energy, t, n) ==
    \A k \in 1..n : onScreen(ApplyTicks2D(p, energy, t, k))

(* Two particles of the 2D factory with the same spawn offset and the same *)
(* energy, one tagged receivedBurstEnergy and one not (the factory returns *)
(* such a pair when the energy variation draw offsets the burst bonus),    *)
(* run through n identical ticks; both are in the array for all n ticks.   *)
ProbeDecayPair ==
    /\ app = "probe" /\ probe = NoProbe
    /\ \E energy \in SliderRange, z \in (-MaxNormalTenths)..MaxNormalTenths,
          t \in TurbulenceDraws2D, n \in 1..MaxDecayTicks :
          \E plain \in {createFireParticle(CanvasWidthPx, CanvasHeightPx, energy,
                                            [CentreDraw2D EXCEPT !.z0 = z])} :
             \E burst \in {[plain EXCEPT !.receivedBurstEnergy = TRUE]} :
                /\ KeptForTicks2D(plain, energy, t, n - 1)
                /\ KeptForTicks2D(burst, energy, t, n - 1)
                /\ probe' = [fn |-> "decayPair", energy |-> energy, n |-> n,
                             normalizedDistanceFromCenter |->
                                 plain.normalizedDistanceFromCenter,
                             remainingEnergy |-> plain.remainingEnergy,
                             plain |-> ApplyTicks2D(plain, energy, t, n),
                             burst |-> ApplyTicks2D(burst, energy, t, n)]
    /\ SimulationUnchanged

(* Contents a THREE.Color object may hold when it is handed to             *)
(* updateParticleColor: as constructed (black), or white.                  *)
ColorObjects ==
    {[r |-> 0, g |-> 0, b |-> 0], [r |-> ColourUnit, g |-> ColourUnit, b |-> ColourUnit]}

(* computeParticleColorRGBA on a particle with the lifeFraction, and again *)
(* on a particle that differs from it in its other fields.                 *)
ProbeComputeParticleColorRGBA ==
    /\ app = "probe" /\ probe = NoProbe
    /\ \E life \in LifeGrid, energy \in SliderRange :
          probe' = [fn |-> "computeParticleColorRGBA", lifeFraction |-> life,
                    energy |-> energy,
                    color |-> computeParticleColorRGBA(
                                  [lifeFraction |-> life, basePixelRadius |-> 40000], energy),
                    again |-> computeParticleColorRGBA(
                                  [lifeFraction |-> life, basePixelRadius |-> 69999], energy)]
    /\ SimulationUnchanged

(* updateParticleColor on a color object, and again on the object it left   *)
(* behind, with the same lifeFraction and energy.                          *)
ProbeUpdateParticleColor ==
    /\ app = "probe" /\ probe = NoProbe
    /\ \E life \in LifeGrid, energy \in SliderRange, c \in ColorObjects :
          \E first \in {updateParticleColor(c, life, energy)} :
             probe' = [fn |-> "updateParticleColor", lifeFraction |-> life,
                       energy |-> energy, before |-> c, color |-> first,
                       again |-> updateParticleColor(first, life, energy)]
    /\ SimulationUnchanged

(* computeParticleColor on a particle with the lifeFraction, and again on  *)
(* a particle that differs from it in its other fields.                    *)
ProbeComputeParticleColor ==
    /\ app = "probe" /\ probe = NoProbe
    /\ \E life \in LifeGrid :
          probe' = [fn |-> "computeParticleColor", lifeFraction |-> life,
                    color |-> computeParticleColor(
                                  [lifeFraction |-> life, basePixelRadius |-> 4000]),
                    again |-> computeParticleColor(
                                  [lifeFraction |-> life, basePixelRadius |-> 6999])]
    /\ SimulationUnchanged

(* The base colours of the two 3D mappers at two neighbouring lifeFraction *)
(* values of the grid.                                                     *)
ProbeBaseColour ==
    /\ app = "probe" /\ probe = NoProbe
    /\ \E life \in LifeGrid \ {100} :
          \/ probe' = [fn |-> "baseColour", mapper |-> "updateParticleColor",
                       lifeFraction |-> life,
                       lower |-> updateParticleColorBase(life),
                       upper |-> updateParticleColorBase(life + 1)]
          \/ probe' = [fn |-> "baseColour", mapper |-> "computeParticleColor",
                       lifeFraction |-> life,
                       lower |-> computeParticleColorBase(life),
                       upper |-> computeParticleColorBase(life + 1)]
    /\ SimulationUnchanged

\* how far below its capacity the array of a spawn-phase probe may be
MaxGap == 16

\* an array of n particles like p, run-length encoded
ArrayOf(p, n) == IF n = 0 THEN <<>> ELSE <<[p |-> p, n |-> n]>>

(* One tick on an array of n particles, n near the capacity of the tick's  *)
(* energy, or 0.  2D: tick() of the hook (the array never holds more than  *)
(* its capacity); 3D: the useFrame callback with delta = 0 (the array may  *)
(* exceed the capacity, after the slider dropped, but not MAX_PARTICLES).  *)
(* The particles in the array have life left.                              *)
ProbeSpawnPhase ==
    /\ app = "probe" /\ probe = NoProbe
    /\ \E energy \in SliderRange, gap \in (-2)..MaxGap, empty \in BOOLEAN :
          \/ \E n \in {IF empty THEN 0 ELSE particleCountCap(energy) - Max(gap, 0)} :
             \E b \in {[head |-> EdgeDraw2D, tail |-> CentreDraw2D]} :
             \E gs \in {ArrayOf(createFireParticle(CanvasWidthPx, CanvasHeightPx, energy,
                                                    CentreDraw2D), n)} :
             \E r \in {Tick2D(gs, energy, b, GustDraw2D)} :
                probe' = [fn |-> "spawnPhase", variant |-> "2D", energy |-> energy,
                          n |-> n, before |-> gs, turbulence |-> GustDraw2D,
                          spawned |-> r.spawned, after |-> r.live, culled |-> r.culled]
          \/ \E n \in {IF empty THEN 0 ELSE Min(particleCap(energy) - gap, MAX_PARTICLES)} :
             \E f \in {[delta |-> 0, noise |-> 80, head |-> OffCentreDraw3D,
                        tail |-> CentreDraw3D]} :
             \E gs \in {ArrayOf(spawnParticle(energy, CentreDraw3D), n)} :
             \E r \in {Step3D(gs, energy, f)} :
                probe' = [fn |-> "spawnPhase", variant |-> "3D", energy |-> energy,
                          n |-> n, before |-> gs, turbulence |-> f.noise,
                          spawned |-> r.spawned, after |-> r.live, culled |-> r.culled]
    /\ SimulationUnchanged

NextProbe ==
    \/ ProbeRates
    \/ ProbeComputeParticleColorRGBA
    \/ ProbeUpdateParticleColor
    \/ ProbeComputeParticleColor
    \/ ProbeBaseColour
    \/ ProbeDecayPair
    \/ ProbeCreateFireParticle
    \/ ProbeCreateFireParticle3D
    \/ ProbeSpawnParticle
    \/ ProbeSpawnPhase

SpecProbe == InitProbe /\ [][NextProbe]_vars

-----------------------------------------------------------------------------
(* Properties of the simulation (specification Spec) *)

\* the capacity of the running variant at an energy
capacity(energy) ==
    IF app = "2D" THEN particleCountCap(energy) ELSE particleCap(energy)

\* the spawn rate of the running variant at an energy
spawnRateOf(energy) ==
    IF app = "2D" THEN spawnPerFrame(energy) ELSE spawnRate(energy)

\* the energyPercent the last tick ran with
LastTickEnergy == tickEnergies[Len(tickEnergies)]

(* C1: at the end of every tick, in both variants, the number of live      *)
(* particles, and so the number emitted in the tick, is at most the        *)
(* capacity at the energy of that tick, whatever the slider did between    *)
(* the ticks.                                                              *)
C1_PopulationWithinCapacity ==
    tickEnergies # <<>> =>
        /\ SumCounts(liveParticles) <= capacity(LastTickEnergy)
        /\ SumCounts(emitted) <= capacity(LastTickEnergy)

\* the lifeFraction the program holds for a group after the update phase
LifeFractionOf(g) == IF app = "2D" THEN g.p.lifeFraction ELSE g.lifeFraction

(* C2: every lifeFraction the program holds or computes lies in [0,1]: the *)
(* field the 2D factory sets, the field the 2D update sets (on particles   *)
(* kept and particles culled), the value the 3D callback computes for the  *)
(* colour; and a particle whose lifeFraction is 0 after the update is      *)
(* neither left in the live collection nor emitted.                        *)
C2_LifeFractionInUnitInterval ==
    /\ \A k \in 1..Len(emitted) :
          InUnitInterval(LifeFractionOf(emitted[k])) /\ ~IsZero(LifeFractionOf(emitted[k]))
    /\ app = "2D" =>
          /\ \A k \in 1..Len(spawnedNow) : InUnitInterval(spawnedNow[k].p.lifeFraction)
          /\ \A k \in 1..Len(culled) : InUnitInterval(culled[k].p.lifeFraction)
          /\ \A k \in 1..Len(liveParticles) :
                /\ InUnitInterval(liveParticles[k].p.lifeFraction)
                /\ ~IsZero(liveParticles[k].p.lifeFraction)

(* C2 witness: a 2D tick culled a particle the factory created with        *)
(* initialEnergy 0 (its lifeFraction is 0) and kept particles whose        *)
(* lifeFraction lies strictly between 0 and 1.                             *)
C2_Witness ==
    /\ app = "2D"
    /\ \E k \in 1..Len(culled) :
          culled[k].p.initialEnergy = 0 /\ IsZero(culled[k].p.lifeFraction)
    /\ \E k \in 1..Len(emitted) :
          emitted[k].p.lifeFraction.num < emitted[k].p.lifeFraction.den


\* every tick on the present array ran with energyPercent = 100
AllTicksAtFullEnergy ==
    \A k \in 1..Len(tickEnergies) : tickEnergies[k] = 100

(* C4: starting from an empty collection with energyPercent = 100 held     *)
(* constant, the population at the end of tick t = 1, 2, 3 is exactly      *)
(* t * spawnRate(100) (2D: t * 15, 3D: t * 210), whatever the draws.       *)
C4_EarlyPopulationIsLinear ==
    (Len(tickEnergies) \in 1..3 /\ AllTicksAtFullEnergy) =>
        SumCounts(liveParticles) = Len(tickEnergies) * spawnRateOf(100)

\* the position tests of onScreen: positionY > -30, -30 < positionX < canvasWidth + 30
WithinMargin2D(p) ==
    /\ p.positionY > -30 * PosUnit2D
    /\ p.positionX > -30 * PosUnit2D
    /\ p.positionX < (CanvasWidthPx + 30) * PosUnit2D

(* The height, in world units, up to which the 3D scene counts as the      *)
(* region of interest: the camera at [0, 7, 20] looks at the origin with a *)
(* vertical field of view of 60 degrees, so above the fire pit it sees up  *)
(* to 7 + 20 * tan(30 - atan(7/20)) = 10.8; 12 leaves a margin of a tenth. *)
SceneTopY == 12

\* the particle is inside the 3D region of interest and its margin
WithinMargin3D(p) == p.position.y <= SceneTopY * PosUnit3D

(* C5: in both variants no particle emitted by a tick lies outside the     *)
(* bounding margin of the region of interest after that tick's update: a   *)
(* particle that left the margin is culled, even if it still has life.     *)
C5_OutsideMarginIsCulled ==
    \A k \in 1..Len(emitted) :
        IF app = "2D" THEN WithinMargin2D(emitted[k].p) ELSE WithinMargin3D(emitted[k].p)

\* remainingEnergy (3D: life) and initialEnergy (3D: initialLife) of a particle
RemainingOf(p) == IF app = "2D" THEN p.remainingEnergy ELSE p.life
InitialOf(p) == IF app = "2D" THEN p.initialEnergy ELSE p.initialLife

(* C7: after every tick each particle left in the live collection, and     *)
(* each particle the tick drew or wrote to the buffers, has remaining      *)
(* energy (life) above 0 and at most its initial energy (life).            *)
C7_LiveParticlesHaveEnergy ==
    /\ \A k \in 1..Len(liveParticles) :
          /\ RemainingOf(liveParticles[k].p) > 0
          /\ RemainingOf(liveParticles[k].p) <= InitialOf(liveParticles[k].p)
    /\ \A k \in 1..Len(emitted) :
          /\ RemainingOf(emitted[k].p) > 0
          /\ RemainingOf(emitted[k].p) <= InitialOf(emitted[k].p)

(* C7 witness: a tick kept and emitted particles that have lost energy,    *)
(* and removed a particle whose energy (life) had run out.                 *)
C7_Witness ==
    /\ Len(tickEnergies) >= 2
    /\ emitted # <<>> /\ Len(liveParticles) = Len(emitted)
    /\ \E k \in 1..Len(liveParticles) :
          RemainingOf(liveParticles[k].p) < InitialOf(liveParticles[k].p)
    /\ \E k \in 1..Len(culled) : RemainingOf(culled[k].p) <= 0


-----------------------------------------------------------------------------
(* Properties of the functions (specification SpecProbe) *)

(* C3: at every slider position in [10,100], in both variants, the spawn   *)
(* rate is at most the capacity; the spawn rate and the capacity do not    *)
(* decrease when the slider rises; and the capacity at 10 is strictly      *)
(* below the capacity at 100.                                              *)
C3_RatesAndCapacities ==
    probe.fn = "rates" =>
        /\ probe.spawnPerFrame[1] <= probe.particleCountCap[1]
        /\ probe.spawnRate[1] <= probe.particleCap[1]
        /\ probe.spawnPerFrame[1] <= probe.spawnPerFrame[2]
        /\ probe.particleCountCap[1] <= probe.particleCountCap[2]
        /\ probe.spawnRate[1] <= probe.spawnRate[2]
        /\ probe.particleCap[1] <= probe.particleCap[2]
        /\ (probe.low = 10 /\ probe.high = 100) =>
              /\ probe.particleCountCap[1] < probe.particleCountCap[2]
              /\ probe.particleCap[1] < probe.particleCap[2]

(* C3 witness: the rates were computed at the two ends of the slider, and  *)
(* they are the values the formulas give there.                            *)
C3_Witness ==
    /\ probe.fn = "rates" /\ probe.low = 10 /\ probe.high = 100
    /\ probe.spawnPerFrame = <<6, 15>> /\ probe.particleCountCap = <<430, 700>>
    /\ probe.spawnRate = <<12, 210>> /\ probe.particleCap = <<555, 6000>>

(* C3 second witness: the slider positions around 70, where the double     *)
(* square of 0.7 lies below 0.49.                                          *)
C3_WitnessRounding ==
    /\ probe.fn = "rates" /\ probe.low = 69 /\ probe.high = 70
    /\ probe.spawnRate = <<105, 107>> /\ probe.particleCap = <<3118, 3194>>


(* C8: every particle a factory returns (createFireParticle of the 2D and  *)
(* of the 3D library, spawnParticle of FireParticles) has an initial       *)
(* energy (life) strictly above 0, equal to its remaining energy (life),   *)
(* at every slider position and for every outcome of the draws.            *)
C8_FactoryEnergyIsPositive ==
    /\ probe.fn \in {"createFireParticle", "createFireParticle3D"} =>
          /\ probe.particle.initialEnergy > 0
          /\ probe.particle.remainingEnergy = probe.particle.initialEnergy
    /\ probe.fn = "spawnParticle" =>
          /\ probe.particle.initialLife > 0
          /\ probe.particle.life = probe.particle.initialLife


(* C6 as claimed: of two particles with the same normalizedDistanceFromCenter *)
(* and the same remainingEnergy, one with a burst and one without, the     *)
(* burst particle has strictly more remainingEnergy after N >= 1 identical *)
(* ticks, at every distance the factory can produce, 0 included.           *)
C6_BurstDecaysStrictlySlower ==
    probe.fn = "decayPair" =>
        probe.burst.remainingEnergy > probe.plain.remainingEnergy

(* C6 amended: the burst particle never has less remainingEnergy than the  *)
(* other; it has strictly more when the pair was spawned off the centre    *)
(* line (normalizedDistanceFromCenter > 0), and exactly as much when it    *)
(* was spawned on it, where there is no edge penalty to be exempt from.    *)
C6_BurstDecaysNoFaster ==
    probe.fn = "decayPair" =>
        /\ probe.burst.remainingEnergy >= probe.plain.remainingEnergy
        /\ probe.normalizedDistanceFromCenter > 0 =>
              probe.burst.remainingEnergy > probe.plain.remainingEnergy
        /\ probe.normalizedDistanceFromCenter = 0 =>
              probe.burst.remainingEnergy = probe.plain.remainingEnergy

(* C6 witness: a pair spawned one standard deviation off the centre line   *)
(* at energyPercent 50 after three ticks: both lost energy, the burst      *)
(* particle 3 * 1.4 units and the other 3 * 1.4 * 1.3.                      *)
C6_Witness ==
    /\ probe.fn = "decayPair" /\ probe.energy = 50 /\ probe.n = 3
    /\ probe.normalizedDistanceFromCenter = 10
    /\ probe.remainingEnergy - probe.burst.remainingEnergy = 3 * 140000
    /\ probe.remainingEnergy - probe.plain.remainingEnergy = 3 * 182000


\* a channel value of a 3D mapper is in [0,1]
InChannelRange(c) == 0 <= c /\ c <= ColourUnit

(* C9: the colour mappers stay in range and depend on (lifeFraction,       *)
(* energy) alone: for every lifeFraction in [0,1] and energyPercent in     *)
(* [10,100] computeParticleColorRGBA gives whole r, g, b in [0,255] and an *)
(* alpha in [0,1]; updateParticleColor and computeParticleColor give r, g, *)
(* b in [0,1]; and a second call with the same lifeFraction and energy     *)
(* (on another particle, or on the color object the first call wrote)      *)
(* gives the same colour.                                                  *)
C9_ColourChannelsInRange ==
    /\ probe.fn = "computeParticleColorRGBA" =>
          /\ probe.color.r \in 0..255 /\ probe.color.g \in 0..255 /\ probe.color.b \in 0..255
          /\ 0 <= probe.color.alpha /\ probe.color.alpha <= FactorUnit
          /\ probe.again = probe.color
    /\ probe.fn \in {"updateParticleColor", "computeParticleColor"} =>
          /\ InChannelRange(probe.color.r)
          /\ InChannelRange(probe.color.g)
          /\ InChannelRange(probe.color.b)
          /\ probe.again = probe.color

(* C9 witness: updateParticleColor at full life and full energy, where the *)
(* hotness pushes every channel to the clamp: the colour is white, 1.0 in  *)
(* each channel, whatever the color object held.                           *)
C9_Witness ==
    /\ probe.fn = "updateParticleColor"
    /\ probe.lifeFraction = 100 /\ probe.energy = 100
    /\ probe.before = [r |-> 0, g |-> 0, b |-> 0]
    /\ probe.color = [r |-> ColourUnit, g |-> ColourUnit, b |-> ColourUnit]

(* C9 second witness: the 2D mapper at the top of its middle band, at half *)
(* life: rgba(255, 160, 199, 0.554).                                      *)
C9_WitnessRGBA ==
    /\ probe.fn = "computeParticleColorRGBA"
    /\ probe.lifeFraction = 50 /\ probe.energy = 70
    /\ probe.color = [r |-> 255, g |-> 160, b |-> 199, alpha |-> 5539]

\* no linear piece of either 3D mapper changes a channel by more than 5 per unit of life
NoJump(lower, upper) ==
    /\ Abs(upper.r - lower.r) * 20 <= ColourUnit
    /\ Abs(upper.g - lower.g) * 20 <= ColourUnit
    /\ Abs(upper.b - lower.b) * 20 <= ColourUnit

(* C10: the base colour of both 3D mappers is monotone and piecewise       *)
(* linear in lifeFraction: the base green channel does not increase when   *)
(* lifeFraction decreases, and between two neighbouring lifeFraction       *)
(* values (0.01 apart) no channel moves by more than a linear piece can    *)
(* (0.05), at the band boundaries as elsewhere.                            *)
C10_BaseColourMonotoneNoJump ==
    probe.fn = "baseColour" =>
        /\ probe.lower.g <= probe.upper.g
        /\ NoJump(probe.lower, probe.upper)

-----------------------------------------------------------------------------
(* Properties of the frame effect (specification Spec) *)

\* the step is one call of the useFrame callback
IsFrame3D == app = "3D" /\ ticks' = ticks + 1

\* the step is one run of tick() of the 2D hook
IsTick2D == app = "2D" /\ ticks' = ticks + 1

(* The array the filter of the 2D tick of this step runs over, as it is    *)
(* before the filter: the array the closure holds (fresh when the effect   *)
(* has just run), then what the spawn loop appended.                       *)
BeforeFilter2D ==
    IF mounted /\ energyPercent' = energyPercent
    THEN liveParticles \o spawnedNow'
    ELSE spawnedNow'

(* h is the group g after one 2D tick at the energy: the same particles,   *)
(* moved by the velocity they have after the tick's force increments and   *)
(* before its drag (vertically: the old velocity less the buoyancy         *)
(* 0.09 * energyScalar01), which the drag factors then scale.              *)
MovedByVelocity2D(g, h, energy) ==
    LET dx == h.p.positionX - g.p.positionX
        dy == h.p.positionY - g.p.positionY
    IN  /\ h.n = g.n
        /\ h.p.initialEnergy = g.p.initialEnergy
        /\ h.p.basePixelRadius = g.p.basePixelRadius
        /\ h.p.normalizedDistanceFromCenter = g.p.normalizedDistanceFromCenter
        /\ h.p.receivedBurstEnergy = g.p.receivedBurstEnergy
        /\ dy = g.p.velocityY - 9 * energy
        /\ h.p.velocityY = (dy * (9600 + 2 * energy)) \div 10000
        /\ h.p.velocityX = (dx * (9400 + 4 * energy)) \div 10000

\* the groups of a run-length encoded array
Groups(gs) == {gs[k] : k \in DOMAIN gs}

\* the groups the spawn loop appended that the filter of a call with delta = 0 keeps
SpawnedAlive3D(gs) == SelectSeq(gs, LAMBDA g : g.p.life > 0)

(* C11: a tick with a zero time step changes no existing particle's        *)
(* position.  3D: a useFrame call with delta = 0 leaves every particle     *)
(* that was in the array in place with its position, velocity and life as  *)
(* they were, and the spawn loop still appends (whenever the array is      *)
(* below its capacity).  2D (no time step): every particle the filter runs *)
(* over moves by exactly its velocity after the tick's force increments.   *)
C11_ZeroDeltaMovesNothing ==
    [][ /\ (IsFrame3D /\ frameDelta' = 0) =>
            /\ liveParticles' = liveParticles \o SpawnedAlive3D(spawnedNow')
            /\ SumCounts(liveParticles) < Min(particleCap(energyPercent), MAX_PARTICLES)
                  => spawnedNow' # <<>>
        /\ IsTick2D =>
            /\ Len(emitted') + Len(culled') = Len(BeforeFilter2D)
            /\ \A k \in DOMAIN BeforeFilter2D :
                  \E h \in Groups(emitted') \cup Groups(culled') :
                      MovedByVelocity2D(BeforeFilter2D[k], h, energyPercent')
      ]_vars

(* a useFrame call with delta = 0 has run on an array of particles that    *)
(* had moved before, and has spawned                                       *)
C11_Witness ==
    /\ app = "3D" /\ ticks >= 2 /\ frameDelta = 0
    /\ spawnedNow # <<>>
    /\ Len(liveParticles) >= 2
    /\ liveParticles[1].p.position.y > 0
    /\ liveParticles[1].p.life < liveParticles[1].p.initialLife


(* C12: the tick counter of the 2D simulation (frameIndex) only grows: it  *)
(* never decreases or resets over ticks and energy changes, every tick     *)
(* adds exactly 1 to it, and every tick runs over the array the tick       *)
(* before it left (with what its own spawn loop appended).                 *)
C12_TickCounterMonotone ==
    [][ app = "2D" =>
           /\ frameIndex' >= frameIndex
           /\ IsTick2D =>
                 /\ frameIndex' = frameIndex + 1
                 /\ Len(emitted') + Len(culled') = Len(liveParticles) + Len(spawnedNow')
      ]_vars

-----------------------------------------------------------------------------
(* Properties of the spawn phase (specification SpecProbe) *)

\* the capacity the spawn loop of the probed variant tests the length against
SpawnCapacity(variant, energy) ==
    IF variant = "2D" THEN particleCountCap(energy)
    ELSE Min(particleCap(energy), MAX_PARTICLES)

\* the spawn rate of the probed variant
SpawnRateOfVariant(variant, energy) ==
    IF variant = "2D" THEN spawnPerFrame(energy) ELSE spawnRate(energy)

(* C13: with n live particles before the spawn phase, the phase appends    *)
(* exactly min(spawnRate, max(0, capacity - n)) particles, the capacity of *)
(* the 3D variant being bounded by MAX_PARTICLES as well; none when        *)
(* n >= capacity; and it changes no particle already in the array: the     *)
(* existing particles leave the tick as the filter alone makes them (3D    *)
(* with delta = 0: as they were), followed by the appended ones.           *)
C13_SpawnCountIsGated ==
    probe.fn = "spawnPhase" =>
        LET cap == SpawnCapacity(probe.variant, probe.energy)
            rate == SpawnRateOfVariant(probe.variant, probe.energy)
            kept == IF probe.variant = "3D" THEN probe.spawned
                    ELSE [k \in 1..Len(probe.spawned) |->
                             [probe.spawned[k] EXCEPT
                                 !.p = UpdateParticle2D(@, probe.energy, probe.turbulence)]]
            existing == IF probe.variant = "3D" THEN probe.before
                        ELSE [k \in 1..Len(probe.before) |->
                                 [probe.before[k] EXCEPT
                                     !.p = UpdateParticle2D(@, probe.energy,
                                                            probe.turbulence)]]
        IN  /\ SumCounts(probe.spawned) = Min(rate, Max(0, cap - probe.n))
            /\ probe.n >= cap => probe.spawned = <<>>
            /\ probe.culled = <<>>
            /\ probe.after = existing \o kept

\* the loop stopped part-way: fewer than spawnRate were appended, and at least one
C13_Witness ==
    /\ probe.fn = "spawnPhase"
    /\ probe.n > 0
    /\ SumCounts(probe.spawned) > 0
    /\ SumCounts(probe.spawned) < SpawnRateOfVariant(probe.variant, probe.energy)
    /\ SumCounts(probe.after) = SpawnCapacity(probe.variant, probe.energy)

-----------------------------------------------------------------------------
(* The lifetime of a particle: the two applications running for as long as *)
(* a particle can live, with one particle followed.  probe holds the       *)
(* followed particle as the last tick left it, and whether the filter has  *)
(* kept it so far.  The slider stays where it was when the component       *)
(* mounted; the 3D render loop hands the callback the same delta in every  *)
(* call.                                                                   *)

\* ticks a behaviour is followed for: more than the longest life of a particle
MaxLifeTicks == 170

\* the deltas of the render loop, in milliseconds: a stalled clock, 40 and 2 frames per second
LifeDeltas3D == {0, 25, 500}

InitLife ==
    /\ app \in {"2D", "3D"}
    /\ mounted = FALSE
    /\ energyPercent \in EnergyLevels
    /\ liveParticles = <<>>
    /\ frameIndex = 0
    /\ animationFrameIdRef = 0
    /\ rafPending = {}
    /\ ticks = 0
    /\ changes = 0
    /\ emitted = <<>>
    /\ culled = <<>>
    /\ spawnedNow = <<>>
    /\ tickEnergies = <<>>
    /\ frameDelta = 0
    /\ drawRange = MAX_PARTICLES
    /\ probe = NoProbe

\* the followed 2D particle after the filter callback ran on it
Followed2D(p, energy, t) ==
    \E q \in {UpdateParticle2D(p, energy, t)} :
        probe' = [fn |-> "followed", p |-> q, present |-> onScreen(q)]

\* the followed 3D particle after the filter callback ran on it
Followed3D(p, energy, delta, noise) ==
    \E q \in {DecayLife3D(p, delta)} :
        probe' = IF Alive3D(q)
                 THEN [fn |-> "followed", p |-> UpdateParticle3D(q, energy, delta, noise),
                       present |-> TRUE]
                 ELSE [fn |-> "followed", p |-> q, present |-> FALSE]

(* The 2D component mounts and the effect runs tick() once; the first      *)
(* particle its spawn loop pushes is the one followed.                     *)
LifeMount2D ==
    /\ app = "2D" /\ ~mounted /\ ticks = 0
    /\ mounted' = TRUE
    /\ \E head \in FactoryDraws2D :
          /\ RunTick2D(<<>>, 0, energyPercent, rafPending, <<>>,
                       [head |-> head, tail |-> CentreDraw2D], CalmDraw2D)
          /\ Followed2D(createFireParticle(CanvasWidthPx, CanvasHeightPx, energyPercent,
                                           head),
                        energyPercent, CalmDraw2D)
    /\ UNCHANGED <<app, energyPercent, changes, frameDelta, drawRange>>

\* the browser runs the pending callback: tick() of the effect closure
LifeTick2D ==
    /\ app = "2D" /\ frameIndex < MaxLifeTicks
    /\ \E id \in rafPending :
          RunTick2D(liveParticles, frameIndex, energyPercent, rafPending \ {id},
                    tickEnergies, [head |-> CentreDraw2D, tail |-> CentreDraw2D], CalmDraw2D)
    /\ IF probe.present
       THEN Followed2D(probe.p, energyPercent, CalmDraw2D)
       ELSE UNCHANGED probe
    /\ UNCHANGED <<app, mounted, energyPercent, changes, frameDelta, drawRange>>

\* the render loop calls the useFrame callback; the first particle it pushes is followed
LifeFrame3D ==
    /\ app = "3D" /\ mounted /\ ticks < MaxLifeTicks
    /\ \E delta \in LifeDeltas3D, head \in FactoryDraws3D :
          /\ ticks > 0 => (delta = frameDelta /\ head = CentreDraw3D)
          /\ \E r \in {Step3D(liveParticles, energyPercent,
                               [delta |-> delta, noise |-> 80, head |-> head,
                                tail |-> CentreDraw3D])} :
                /\ liveParticles' = r.live
                /\ emitted' = r.emitted
                /\ culled' = r.culled
                /\ spawnedNow' = r.spawned
                /\ frameDelta' = delta
                /\ drawRange' = r.particleIndex
          /\ IF ticks = 0
             THEN Followed3D(spawnParticle(energyPercent, head), energyPercent, delta, 80)
             ELSE IF probe.present
                  THEN Followed3D(probe.p, energyPercent, delta, 80)
                  ELSE UNCHANGED probe
    /\ tickEnergies' = Append(tickEnergies, energyPercent)
    /\ ticks' = ticks + 1
    /\ UNCHANGED <<app, mounted, energyPercent, frameIndex, animationFrameIdRef,
                   rafPending, changes>>

NextLife ==
    \/ LifeMount2D
    \/ LifeTick2D
    \/ Unmount2D
    \/ Mount3D
    \/ LifeFrame3D
    \/ Unmount3D

(* A tick ran: the step advances ticks.  The steps of NextLife that do are *)
(* those of LifeMount2D, LifeTick2D and LifeFrame3D, and while the         *)
(* component is mounted and below the bound one of them is enabled.        *)
TickRan ==
    /\ mounted /\ ticks < MaxLifeTicks
    /\ ticks' = ticks + 1

(* The browser runs a requested animation frame callback, and the render   *)
(* loop calls the useFrame callback, for as long as the component is       *)
(* mounted.                                                                *)
SpecLife ==
    InitLife /\ [][NextLife]_vars /\ WF_ticks(TickRan)

\* a particle is being followed, and the filter has kept it so far
FollowedPresent == probe.fn = "followed" /\ probe.present

\* the followed particle has been removed from the array
FollowedRemoved == probe.fn = "followed" /\ ~probe.present

\* the followed particle is in the array exactly as long as the filter has kept it
FollowedIsInArray ==
    probe.fn = "followed" =>
        (probe.present <=> \E k \in DOMAIN liveParticles : liveParticles[k].p = probe.p)

(* C14: every spawned particle is eventually removed from the array while  *)
(* the loop runs.  2D: each tick takes at least 0.8 from remainingEnergy,  *)
(* and the particle is culled.  3D: the particle is culled when every call *)
(* has delta > 0; when every call has delta = 0, a particle with positive  *)
(* life is never removed.                                                  *)
C14_EveryParticleIsRemoved ==
    /\ [][(app = "2D" /\ FollowedPresent /\ probe' # probe) =>
              probe'.p.remainingEnergy <= probe.p.remainingEnergy - 80000]_vars
    /\ (FollowedPresent /\ mounted /\ (app = "2D" \/ frameDelta > 0))
           ~> (FollowedRemoved \/ ~mounted)
    /\ []((app = "3D" /\ probe.fn = "followed" /\ frameDelta = 0
              /\ probe.p.initialLife > 0) => probe.present)

\* a 2D particle born with energy that the filter kept for 20 ticks and then removed
C14_Witness ==
    /\ app = "2D" /\ FollowedRemoved
    /\ probe.p.initialEnergy > 0
    /\ frameIndex > 20
    /\ probe.p.remainingEnergy <= 0

-----------------------------------------------------------------------------
(* Properties of the 2D animation loop (specification Spec) *)

(* C15: in the 2D hook at most one tick callback is pending with           *)
(* requestAnimationFrame at any time: while the component is mounted it is *)
(* the one the running effect instance requested last (the id in           *)
(* animationFrameIdRef), so no callback of a cleaned-up instance is left   *)
(* to run beside it; after unmount none is pending and no tick runs.       *)
C15_OneLoopAtATime ==
    /\ [](app = "2D" =>
             /\ Cardinality(rafPending) <= 1
             /\ (mounted /\ ticks > 0) => rafPending = {animationFrameIdRef}
             /\ ~mounted => rafPending = {})
    /\ [][(app = "2D" /\ ticks > 0 /\ ~mounted) =>
             (ticks' = ticks /\ liveParticles' = liveParticles)]_vars

\* the slider moved while the loop ran, frames followed, and the component unmounted
C15_Witness ==
    /\ app = "2D" /\ ~mounted
    /\ changes >= 1
    /\ frameIndex >= 2
    /\ ticks > frameIndex
    /\ animationFrameIdRef = ticks

-----------------------------------------------------------------------------
(* Properties of the 3D buffers (specification SpecLife, which fills the   *)
(* array to MAX_PARTICLES) *)

\* the slot of the buffers after the last one the groups take
EndOfSlots(gs) == IF gs = <<>> THEN 0 ELSE gs[Len(gs)].slot + gs[Len(gs)].n

(* C16: in the 3D step the array never holds more than MAX_PARTICLES       *)
(* particles, before the filter or after it; every index written in        *)
(* positions and colors is below MAX_PARTICLES * 3; the particles kept are *)
(* written to the slots 0..k-1 in order without gaps; and the draw range   *)
(* set at the end of the call is k, the number of particles the filter     *)
(* kept.                                                                   *)
C16_BuffersWithinBounds ==
    (app = "3D" /\ ticks > 0) =>
        /\ SumCounts(liveParticles) + SumCounts(culled) <= MAX_PARTICLES
        /\ \A k \in DOMAIN emitted :
              /\ emitted[k].slot = EndOfSlots(SubSeq(emitted, 1, k - 1))
              /\ emitted[k].p = liveParticles[k].p /\ emitted[k].n = liveParticles[k].n
              /\ (emitted[k].slot + emitted[k].n - 1) * 3 + 2 < MAX_PARTICLES * 3
        /\ Len(emitted) = Len(liveParticles)
        /\ drawRange = EndOfSlots(emitted)
        /\ drawRange = SumCounts(liveParticles)

\* a call has filled the array to MAX_PARTICLES and written every slot of the buffers
C16_Witness ==
    /\ app = "3D" /\ ticks > 0
    /\ SumCounts(liveParticles) = MAX_PARTICLES
    /\ Len(emitted) >= 2
    /\ drawRange = MAX_PARTICLES
    /\ spawnedNow # <<>>

=============================================================================
